---- MODULE Spec2Model ----
(***************************************************************************)
(* naudiodon3 stream bridging layer (src/index.ts): the AudioIO factory    *)
(* and the Readable / Writable / Duplex audio streams over one engine      *)
(* (the native addon), together with the stream base classes' flow control *)
(* (Readable, Writable, Duplex of 'stream') that drives _read and _write.  *)
(*                                                                         *)
(* Every engine call is a promise: an entry of readOps / writeOps /        *)
(* quitOps that is "pending" until the engine settles it, and that stays   *)
(* in the sequence until the awaiting continuation of the code has run.    *)
(***************************************************************************)
EXTENDS Naturals, Sequences, FiniteSets

\* ------------------------------------------------------------------ bounds
MaxReads == 3        \* engine.read calls the consumer's pulls may cause
MaxWrites == 3       \* chunks the producer submits
MaxShutdowns == 1    \* explicit quit()/abort() calls of the application
MaxStarts == 1       \* start() calls of the application
ReadableHWM == 2     \* readable highWaterMark, counted in buffers

VARIABLES
  \* the factory call
  variant,        \* "none" before AudioIO(), then "Readable" | "Writable" | "Duplex" | "threw"
  inOpt, outOpt,  \* options.inOptions / options.outOptions: "absent" | "undef" | "cfg"
  closeOnError,   \* the closeOnError option of the configuration
  engineCreated,  \* number of portAudioBindings.create calls
  startCalls,     \* number of engine.start calls
  appStarts,      \* number of start() calls of the application
  \* readable side
  reading,        \* Readable state.reading: a _read is in progress (no push yet)
  rbuf,           \* Readable internal buffer (pushed, not yet delivered)
  rEnded,         \* Readable state.ended: push(null) was seen
  endEmitted,     \* number of 'end' notifications
  delivered,      \* buffers delivered to the consumer ('data'), in order
  readOps,        \* engine.read promises not yet consumed by doRead
  readLog,        \* results the engine has returned for read, in order
  readsIssued,    \* number of engine.read calls
  \* writable side
  attempts,       \* chunks the producer has handed to stream.write
  submitted,      \* chunks stream.write has accepted, in order
  refused,        \* chunks stream.write has refused (stream destroyed)
  writing,        \* Writable state.writing: a _write awaits its callback
  wbuf,           \* Writable internal buffer of accepted chunks
  ending,         \* Writable state.ending: end() was called
  finishEmitted,  \* number of 'finish' notifications
  writeOps,       \* engine.write promises not yet consumed by doWrite
  writeLog,       \* chunks passed to engine.write, in order
  writeSettled,   \* chunks whose engine.write has settled, in order
  cbLog,          \* _write completion callbacks raised: <<chunk, outcome>>
  \* lifecycle
  destroyed,      \* the stream is destroyed (Closed)
  errored,        \* the error the stream was destroyed with, or "none"
  closedEmitted,  \* number of 'closed' notifications
  errorsLogged,   \* number of errors seen by the 'error' observer
  \* shutdown
  quitOps,        \* engine.quit promises not yet consumed by quit/abort/finish handler
  quitIssued,     \* number of engine.quit calls
  quitCalls,      \* every engine.quit call, in order: its caller, mode and callback
  quitResolved,   \* the engine.quit calls (by position in quitCalls) the engine has resolved
  calledBack,     \* the quit()/abort() calls whose completion callback ran, in order
  shutdownCalls,  \* number of explicit quit()/abort() calls
  completions,    \* completion callbacks of quit()/abort() that were invoked
  finishedEmitted,\* number of 'finished' notifications
  rejections,     \* quit()/abort()/finish-handler promises that rejected
  \* observations
  ioAfterShutdown,\* kinds ("read", "write") of engine calls issued after quit()/abort() began
  lateBufs,       \* buffers of reads that were outstanding when abort() was called
  idleQuitDone,   \* a quit() begun with no read/write outstanding has resolved
  abortDone,      \* an abort() has completed (its engine.quit resolved)
  abortCalls,     \* number of abort() calls
  failedChunks    \* chunks whose completion callback carried an error

factoryVars == <<variant, inOpt, outOpt, closeOnError, engineCreated>>
startVars == <<startCalls, appStarts>>
readVars == <<reading, rbuf, rEnded, delivered, readOps, readLog, readsIssued>>
writeVars == <<attempts, submitted, refused, writing, wbuf, writeOps, writeLog,
               writeSettled, cbLog, failedChunks>>
endVars == <<endEmitted, ending, finishEmitted>>
lifeVars == <<destroyed, errored, closedEmitted, errorsLogged>>
quitVars == <<quitOps, quitIssued, quitCalls, quitResolved>>
doneVars == <<shutdownCalls, completions, finishedEmitted, rejections, idleQuitDone, abortDone,
             calledBack>>
obsVars == <<ioAfterShutdown, lateBufs, abortCalls>>

vars == <<factoryVars, startVars, readVars, writeVars, endVars, lifeVars,
          quitVars, doneVars, obsVars>>

\* ----------------------------------------------------------------- helpers
OptionStates == {"absent", "undef", "cfg"}

HasReadable == variant \in {"Readable", "Duplex"}
HasWritable == variant \in {"Writable", "Duplex"}
IsStream == variant \in {"Readable", "Writable", "Duplex"}

RemoveAt(s, i) == [j \in 1..(Len(s) - 1) |-> IF j < i THEN s[j] ELSE s[j + 1]]

\* quit()/abort() has been initiated on the stream (explicitly or by the finish handler)
ShutdownInitiated == quitIssued > 0

Init ==
  /\ variant = "none" /\ inOpt = "absent" /\ outOpt = "absent"
  /\ closeOnError = TRUE /\ engineCreated = 0
  /\ startCalls = 0 /\ appStarts = 0
  /\ reading = FALSE /\ rbuf = <<>> /\ rEnded = FALSE /\ endEmitted = 0
  /\ delivered = <<>> /\ readOps = <<>> /\ readLog = <<>> /\ readsIssued = 0
  /\ attempts = 0 /\ submitted = <<>> /\ refused = 0 /\ writing = FALSE
  /\ wbuf = <<>> /\ ending = FALSE /\ finishEmitted = 0 /\ writeOps = <<>>
  /\ writeLog = <<>> /\ writeSettled = <<>> /\ cbLog = <<>> /\ failedChunks = {}
  /\ destroyed = FALSE /\ errored = "none" /\ closedEmitted = 0 /\ errorsLogged = 0
  /\ quitOps = <<>> /\ quitIssued = 0 /\ shutdownCalls = 0 /\ completions = 0
  /\ finishedEmitted = 0 /\ rejections = 0
  /\ quitCalls = <<>> /\ quitResolved = {} /\ calledBack = <<>>
  /\ ioAfterShutdown = {} /\ lateBufs = {} /\ abortCalls = 0 /\ idleQuitDone = FALSE /\ abortDone = FALSE

\* ----------------------------------------------------------------- factory
\* const readable = 'inOptions' in options && options.inOptions !== undefined
OptionPresent(o) == o = "cfg"

\* variant of SelectVariant: presence tested with `in` alone, so a key that is
\* present but undefined counts as configured
SelectVariantKeyOnly(i, o) ==
  IF i # "absent" /\ o # "absent" THEN "Duplex"
  ELSE IF i # "absent" THEN "Readable"
  ELSE IF o # "absent" THEN "Writable"
  ELSE "threw"

\* the if / else if chain of AudioIO
SelectVariant(i, o) ==
  IF OptionPresent(i) /\ OptionPresent(o) THEN "Duplex"
  ELSE IF OptionPresent(i) THEN "Readable"
  ELSE IF OptionPresent(o) THEN "Writable"
  ELSE "threw"

AudioIO(i, o, coe) ==
  /\ variant = "none"
  /\ inOpt' = i /\ outOpt' = o /\ closeOnError' = coe
  /\ engineCreated' = engineCreated + 1   \* portAudioBindings.create(options), first statement
  /\ variant' = SelectVariant(i, o)
  /\ UNCHANGED <<startVars, readVars, writeVars, endVars, lifeVars, quitVars,
                 doneVars, obsVars>>
\* variant of start: the engine is started when the stream is created and
\* again by start()
startAgain ==
  /\ IsStream
  /\ appStarts < MaxStarts
  /\ appStarts' = appStarts + 1
  /\ startCalls' = startCalls + 2
  /\ UNCHANGED <<factoryVars, readVars, writeVars, endVars, lifeVars, quitVars,
                 doneVars, obsVars>>

\* start(): this.audioIOAddon.start()
start ==
  /\ IsStream
  /\ appStarts < MaxStarts
  /\ appStarts' = appStarts + 1
  /\ startCalls' = startCalls + 1
  /\ UNCHANGED <<factoryVars, readVars, writeVars, endVars, lifeVars, quitVars,
                 doneVars, obsVars>>

\* --------------------------------------------------------------- lifecycle
\* variant of destroy: no close handler is wired for a stream destroyed with
\* an error, 'closed' is emitted only on an orderly end
destroyNoClosed(err) ==
  IF destroyed THEN UNCHANGED lifeVars
  ELSE /\ destroyed' = TRUE
       /\ errored' = err
       /\ errorsLogged' = IF err = "none" THEN errorsLogged ELSE errorsLogged + 1
       /\ closedEmitted' = IF err = "none" THEN closedEmitted + 1 ELSE closedEmitted

\* stream.destroy(err): 'error' (if any) reaches the observer wired by AudioIO,
\* then 'close' runs the close handler, which emits 'closed'. A second destroy
\* is a no-op.
destroy(err) ==
  IF destroyed THEN UNCHANGED lifeVars
  ELSE /\ destroyed' = TRUE
       /\ errored' = err
       /\ errorsLogged' = IF err = "none" THEN errorsLogged ELSE errorsLogged + 1
       /\ closedEmitted' = closedEmitted + 1

\* this.audioIOAddon.quit(mode), as called by quit(), abort() and (through
\* stream.quit()) the finish handler
engineQuit(mode, src, cb) ==
  /\ quitOps' = Append(quitOps, [mode |-> mode, src |-> src, cb |-> cb, st |-> "pending",
                                 idle |-> (readOps = <<>> /\ writeOps = <<>>),
                                 id |-> Len(quitCalls) + 1])
  /\ quitIssued' = quitIssued + 1
  /\ quitCalls' = Append(quitCalls, [src |-> src, mode |-> mode, cb |-> cb])
  /\ quitResolved' = quitResolved

\* Writable needFinish: end() was called and nothing is left to write
needFinish(end, wr, buf) ==
  /\ HasWritable /\ end /\ ~destroyed /\ errored = "none"
  /\ buf = <<>> /\ ~wr /\ finishEmitted = 0

\* 'finish': the handler wired by AudioIO calls stream.quit() (no callback);
\* then autoDestroy closes the stream if there is no readable side left open.
finish(endEm) ==
  /\ finishEmitted' = finishEmitted + 1
  /\ engineQuit("WAIT", "finish", FALSE)
  /\ IF ~HasReadable \/ endEm > 0 THEN destroy("none") ELSE UNCHANGED lifeVars

finishMaybe(end, wr, buf, endEm) ==
  IF needFinish(end, wr, buf) THEN finish(endEm)
  ELSE UNCHANGED <<finishEmitted, quitVars, lifeVars>>

\* ------------------------------------------------------------ readable side
ReadKinds == {"buf", "finished", "err", "reject"}

\* the error doRead destroys the stream with: result.err, or the caught rejection
ReadError(kind) == IF kind = "err" THEN "readErr" ELSE "readReject"

ReadErrors == {ReadError(k) : k \in {"err", "reject"}}

BufsOf(log) == SelectSeq(log, LAMBDA r : r[1] = "buf")

\* variant of doReadCall: a second read is requested ahead without awaiting
\* the first
doReadCallAhead ==
  /\ readOps' = readOps \o <<[st |-> "pending", buf |-> 0, gen |-> abortCalls],
                              [st |-> "pending", buf |-> 0, gen |-> abortCalls]>>
  /\ readsIssued' = readsIssued + 2
  /\ ioAfterShutdown' = IF ShutdownInitiated THEN ioAfterShutdown \cup {"read"}
                        ELSE ioAfterShutdown

\* const result = await this.audioIOAddon.read(size): the call
doReadCall ==
  /\ readOps' = Append(readOps, [st |-> "pending", buf |-> 0, gen |-> abortCalls])
  /\ readsIssued' = readsIssued + 1
  /\ ioAfterShutdown' = IF ShutdownInitiated THEN ioAfterShutdown \cup {"read"}
                        ELSE ioAfterShutdown

\* _read(size): called by Readable when the consumer pulls, no _read is in
\* progress, the stream has not ended and the buffer is below highWaterMark
_read ==
  /\ HasReadable /\ ~reading /\ ~rEnded /\ ~destroyed
  /\ Len(rbuf) < ReadableHWM
  /\ readsIssued < MaxReads
  /\ reading' = TRUE
  /\ doReadCall
  /\ UNCHANGED <<factoryVars, startVars, rbuf, rEnded, delivered, readLog, writeVars,
                 endVars, lifeVars, quitVars, doneVars, lateBufs, abortCalls>>

\* the engine settles a read: {err} | {finished} | {buf}, or the promise rejects
EngineRead(i, kind) ==
  /\ i \in DOMAIN readOps /\ readOps[i].st = "pending"
  /\ LET b == IF kind = "buf" THEN Len(BufsOf(readLog)) + 1 ELSE 0 IN
     /\ readOps' = [readOps EXCEPT ![i].st = kind, ![i].buf = b]
     /\ readLog' = Append(readLog, <<kind, b>>)
     /\ lateBufs' = IF kind = "buf" /\ abortCalls > readOps[i].gen
                    THEN lateBufs \cup {b} ELSE lateBufs
  /\ UNCHANGED <<factoryVars, startVars, reading, rbuf, rEnded, delivered, readsIssued,
                 writeVars, endVars, lifeVars, quitVars, doneVars, ioAfterShutdown,
                 abortCalls>>

\* this.push(null): Readable marks the stream ended
pushEOF ==
  /\ reading' = FALSE
  /\ rEnded' = TRUE
  /\ UNCHANGED <<rbuf, lifeVars>>

\* variant of push: the chunk is put at the front of the read buffer (unshift)
pushFront(b) ==
  IF rEnded THEN destroy("pushAfterEOF") /\ UNCHANGED <<reading, rbuf, rEnded>>
  ELSE IF destroyed THEN UNCHANGED <<reading, rbuf, rEnded, lifeVars>>
  ELSE /\ reading' = FALSE
       /\ rbuf' = <<b>> \o rbuf
       /\ UNCHANGED <<rEnded, lifeVars>>

\* this.push(result.buf): Readable buffers the chunk; a push after EOF is an
\* error, a push on a destroyed stream is ignored
push(b) ==
  IF rEnded THEN destroy("pushAfterEOF") /\ UNCHANGED <<reading, rbuf, rEnded>>
  ELSE IF destroyed THEN UNCHANGED <<reading, rbuf, rEnded, lifeVars>>
  ELSE /\ reading' = FALSE
       /\ rbuf' = Append(rbuf, b)
       /\ UNCHANGED <<rEnded, lifeVars>>

\* variant of doReadResult: `finished` is not turned into push(null); the read
\* just completes and the stream stays open
doReadResultNoEOF(op) ==
  IF op.st \in {"err", "reject"}
  THEN destroy(ReadError(op.st)) /\ UNCHANGED <<reading, rbuf, rEnded>>
  ELSE IF op.st = "finished"
  THEN reading' = FALSE /\ UNCHANGED <<rbuf, rEnded, lifeVars>>
  ELSE push(op.buf)

\* variant of doReadResult: result.err is not checked, the (absent) buffer of a
\* failed read is pushed like any other; only a rejection destroys the stream
doReadResultErrIgnored(op) ==
  IF op.st = "reject"
  THEN destroy(ReadError(op.st)) /\ UNCHANGED <<reading, rbuf, rEnded>>
  ELSE IF op.st = "finished" THEN pushEOF
  ELSE push(op.buf)

\* doRead after the await: the three branches on the result, and the catch
doReadResult(op) ==
  IF op.st \in {"err", "reject"}
  THEN destroy(ReadError(op.st)) /\ UNCHANGED <<reading, rbuf, rEnded>>
  ELSE IF op.st = "finished" THEN pushEOF
  ELSE push(op.buf)

doRead(i) ==
  /\ i \in DOMAIN readOps /\ readOps[i].st # "pending"
  /\ readOps' = RemoveAt(readOps, i)
  /\ doReadResult(readOps[i])
  /\ UNCHANGED <<factoryVars, startVars, delivered, readLog, readsIssued, writeVars,
                 endVars, quitVars, doneVars, obsVars>>

\* Readable delivers the head of its buffer to the consumer ('data')
emitData ==
  /\ HasReadable /\ ~destroyed /\ rbuf # <<>>
  /\ delivered' = Append(delivered, Head(rbuf))
  /\ rbuf' = Tail(rbuf)
  /\ UNCHANGED <<factoryVars, startVars, reading, rEnded, readOps, readLog, readsIssued,
                 writeVars, endVars, lifeVars, quitVars, doneVars, obsVars>>

\* variant of emitEnd: the duplex stream is left half open, the end of the
\* read side does not end the write side (allowHalfOpen: true)
emitEndHalfOpen ==
  /\ HasReadable /\ ~destroyed /\ rEnded /\ rbuf = <<>> /\ endEmitted = 0
  /\ endEmitted' = endEmitted + 1
  /\ UNCHANGED <<ending, finishEmitted, quitVars>>
  /\ IF ~HasWritable \/ finishEmitted > 0 THEN destroy("none")
     ELSE UNCHANGED lifeVars
  /\ UNCHANGED <<factoryVars, startVars, readVars, writeVars, doneVars, obsVars>>

\* variant of emitEnd: the factory also wires the read side's 'end' to
\* quit() and 'finished', as it does for 'finish'
emitEndQuits ==
  /\ HasReadable /\ ~destroyed /\ rEnded /\ rbuf = <<>> /\ endEmitted = 0
  /\ endEmitted' = endEmitted + 1
  /\ IF HasWritable /\ ~ending
     THEN /\ ending' = TRUE
          /\ finishMaybe(TRUE, writing, wbuf, 1)
     ELSE /\ UNCHANGED <<ending, finishEmitted>>
          /\ engineQuit("WAIT", "finish", FALSE)
          /\ IF ~HasWritable \/ finishEmitted > 0 THEN destroy("none")
             ELSE UNCHANGED lifeVars
  /\ UNCHANGED <<factoryVars, startVars, readVars, writeVars, doneVars, obsVars>>

\* Readable endReadableNT: 'end' once the buffer is drained after push(null).
\* allowHalfOpen: false (Duplex) ends the writable side; otherwise autoDestroy.
emitEnd ==
  /\ HasReadable /\ ~destroyed /\ rEnded /\ rbuf = <<>> /\ endEmitted = 0
  /\ endEmitted' = endEmitted + 1
  /\ IF HasWritable /\ ~ending
     THEN /\ ending' = TRUE
          /\ finishMaybe(TRUE, writing, wbuf, 1)
     ELSE /\ UNCHANGED <<ending, finishEmitted, quitVars>>
          /\ IF ~HasWritable \/ finishEmitted > 0 THEN destroy("none")
             ELSE UNCHANGED lifeVars
  /\ UNCHANGED <<factoryVars, startVars, readVars, writeVars, doneVars, obsVars>>

\* ------------------------------------------------------------ writable side
WriteKinds == {"ok", "err", "reject"}

\* the error the completion callback carries: the engine's Error, or the caught rejection
WriteError(kind) == IF kind = "err" THEN "writeErr" ELSE "writeReject"

\* const error = await this.audioIOAddon.write(chunk): the call
doWriteCall(ops, c) ==
  /\ writeOps' = Append(ops, [st |-> "pending", chunk |-> c])
  /\ writeLog' = Append(writeLog, c)
  /\ ioAfterShutdown' = IF ShutdownInitiated THEN ioAfterShutdown \cup {"write"}
                        ELSE ioAfterShutdown

\* variant of _write: the write is accepted at once, without waiting for the
\* engine (the stream does not stay in state.writing)
_writeNoWait(ops, c) ==
  /\ writing' = FALSE
  /\ doWriteCall(ops, c)

\* _write(chunk, encoding, callback): Writable holds the callback (state.writing)
_write(ops, c) ==
  /\ writing' = TRUE
  /\ doWriteCall(ops, c)

\* stream.write(chunk) by the producer: refused on a destroyed stream, buffered
\* while a _write awaits its callback, else handed to _write at once
write ==
  /\ HasWritable /\ ~ending
  /\ attempts < MaxWrites
  /\ attempts' = attempts + 1
  /\ IF destroyed
     THEN /\ refused' = refused + 1
          /\ UNCHANGED <<submitted, writing, wbuf, writeOps, writeLog, ioAfterShutdown>>
     ELSE /\ submitted' = Append(submitted, attempts + 1)
          /\ refused' = refused
          /\ IF writing
             THEN /\ wbuf' = Append(wbuf, attempts + 1)
                  /\ UNCHANGED <<writing, writeOps, writeLog, ioAfterShutdown>>
             ELSE /\ wbuf' = wbuf
                  /\ _write(writeOps, attempts + 1)
  /\ UNCHANGED <<factoryVars, startVars, readVars, writeSettled, cbLog, failedChunks,
                 endVars, lifeVars, quitVars, doneVars, lateBufs, abortCalls>>

\* the engine settles a write: Error | null, or the promise rejects
EngineWrite(i, kind) ==
  /\ i \in DOMAIN writeOps /\ writeOps[i].st = "pending"
  /\ writeOps' = [writeOps EXCEPT ![i].st = kind]
  /\ writeSettled' = Append(writeSettled, writeOps[i].chunk)
  /\ UNCHANGED <<factoryVars, startVars, readVars, attempts, submitted, refused, writing,
                 wbuf, writeLog, cbLog, failedChunks, endVars, lifeVars, quitVars,
                 doneVars, obsVars>>

\* callback(error): Writable onwrite. An error destroys the stream (autoDestroy);
\* success hands the next buffered chunk to _write, or finishes an ended stream.
callback(ops, c, outcome) ==
  /\ cbLog' = Append(cbLog, <<c, outcome>>)
  /\ failedChunks' = IF outcome = "ok" THEN failedChunks ELSE failedChunks \cup {c}
  /\ IF ~writing
     THEN /\ destroy("multipleCallback")
          /\ writeOps' = ops
          /\ UNCHANGED <<writing, wbuf, writeLog, ioAfterShutdown, finishEmitted, quitVars>>
     ELSE IF outcome # "ok"
     THEN /\ destroy(WriteError(outcome))
          /\ writing' = FALSE
          /\ writeOps' = ops
          /\ UNCHANGED <<wbuf, writeLog, ioAfterShutdown, finishEmitted, quitVars>>
     ELSE IF ~destroyed /\ wbuf # <<>>
     THEN /\ wbuf' = Tail(wbuf)
          /\ _write(ops, Head(wbuf))
          /\ UNCHANGED <<finishEmitted, quitVars, lifeVars>>
     ELSE /\ writing' = FALSE
          /\ writeOps' = ops
          /\ finishMaybe(ending, FALSE, wbuf, endEmitted)
          /\ UNCHANGED <<wbuf, writeLog, ioAfterShutdown>>

\* doWrite after the await: callback(error), or the catch branch's callback
doWrite(i) ==
  /\ i \in DOMAIN writeOps /\ writeOps[i].st # "pending"
  /\ callback(RemoveAt(writeOps, i), writeOps[i].chunk, writeOps[i].st)
  /\ UNCHANGED <<factoryVars, startVars, readVars, attempts, submitted, refused,
                 writeSettled, endEmitted, ending, doneVars, lateBufs, abortCalls>>

\* doWrite when the engine's write resolved (with null or an Error) and
\* callback(error) itself throws inside the try block (Writable
\* onwrite runs the producer's write callback and 'drain' listeners
\* synchronously, and one of them throws): the catch branch calls callback a
\* second time for the same chunk. Writable takes the second call for the
\* completion of the next buffered chunk if onwrite had already handed it to
\* _write, and for a multiple callback otherwise; either way the stream is
\* destroyed with an error. The throw skips onwrite's finishMaybe.
doWriteThrows(i) ==
  /\ i \in DOMAIN writeOps /\ writeOps[i].st \in {"ok", "err"}
  /\ writing
  /\ LET c == writeOps[i].chunk
         ops == RemoveAt(writeOps, i) IN
     /\ cbLog' = cbLog \o << <<c, writeOps[i].st>>, <<c, "thrown">> >>
     /\ failedChunks' = failedChunks \cup {c}
     /\ writing' = FALSE
     /\ IF writeOps[i].st = "ok" /\ ~destroyed /\ wbuf # <<>>
        THEN /\ wbuf' = Tail(wbuf)
             /\ doWriteCall(ops, Head(wbuf))
             /\ destroy("writeThrown")
        ELSE /\ writeOps' = ops
             /\ destroy("multipleCallback")
             /\ UNCHANGED <<wbuf, writeLog, ioAfterShutdown>>
  /\ UNCHANGED <<factoryVars, startVars, readVars, attempts, submitted, refused,
                 writeSettled, endVars, quitVars, doneVars, lateBufs, abortCalls>>

\* stream.end() by the producer (upstream ended)
end ==
  /\ HasWritable /\ ~ending
  /\ ending' = TRUE
  /\ finishMaybe(TRUE, writing, wbuf, endEmitted)
  /\ UNCHANGED <<factoryVars, startVars, readVars, writeVars, endEmitted, doneVars, obsVars>>

\* ----------------------------------------------------------------- loopback
\* a passthrough engine: a read resolves with the oldest written buffer it has
\* not returned yet, and stays pending while there is none
EnginePassthroughRead(i) ==
  /\ i \in DOMAIN readOps /\ readOps[i].st = "pending"
  /\ Len(BufsOf(readLog)) < Len(writeSettled)
  /\ LET b == writeSettled[Len(BufsOf(readLog)) + 1] IN
     /\ readOps' = [readOps EXCEPT ![i].st = "buf", ![i].buf = b]
     /\ readLog' = Append(readLog, <<"buf", b>>)
  /\ UNCHANGED <<factoryVars, startVars, reading, rbuf, rEnded, delivered, readsIssued,
                 writeVars, endVars, lifeVars, quitVars, doneVars, obsVars>>

\* audioDuplex.pipe(audioDuplex): the 'data' handler of pipe writes each chunk
\* the read side delivers back into the same stream. The loop is cut after
\* MaxWrites writes: later chunks are delivered but not written again.
pipeData ==
  /\ variant = "Duplex" /\ ~destroyed /\ rbuf # <<>>
  /\ delivered' = Append(delivered, Head(rbuf))
  /\ rbuf' = Tail(rbuf)
  /\ IF attempts < MaxWrites /\ ~ending
     THEN /\ attempts' = attempts + 1
          /\ submitted' = Append(submitted, Head(rbuf))
          /\ IF writing
             THEN /\ wbuf' = Append(wbuf, Head(rbuf))
                  /\ UNCHANGED <<writing, writeOps, writeLog, ioAfterShutdown>>
             ELSE /\ wbuf' = wbuf
                  /\ _write(writeOps, Head(rbuf))
     ELSE UNCHANGED <<attempts, submitted, wbuf, writing, writeOps, writeLog,
                      ioAfterShutdown>>
  /\ UNCHANGED <<factoryVars, startVars, reading, rEnded, readOps, readLog, readsIssued,
                 refused, writeSettled, cbLog, failedChunks, endVars, lifeVars, quitVars,
                 doneVars, lateBufs, abortCalls>>

\* ----------------------------------------------------------------- shutdown
QuitKinds == {"resolved", "rejected"}

\* quit(callback?): await this.audioIOAddon.quit('WAIT')
quit(cb) ==
  /\ IsStream
  /\ shutdownCalls < MaxShutdowns
  /\ shutdownCalls' = shutdownCalls + 1
  /\ engineQuit("WAIT", "quit", cb)
  /\ UNCHANGED <<factoryVars, startVars, readVars, writeVars, endVars, lifeVars,
                 completions, finishedEmitted, rejections, idleQuitDone, abortDone,
                 calledBack, obsVars>>

\* variant of abort: the engine is asked to quit in WAIT mode
abortWait(cb) ==
  /\ IsStream
  /\ shutdownCalls < MaxShutdowns
  /\ shutdownCalls' = shutdownCalls + 1
  /\ abortCalls' = abortCalls + 1
  /\ engineQuit("WAIT", "abort", cb)
  /\ UNCHANGED <<factoryVars, startVars, readVars, writeVars, endVars, lifeVars,
                 completions, finishedEmitted, rejections, idleQuitDone, abortDone,
                 calledBack, ioAfterShutdown, lateBufs>>

\* abort(callback?): this.audioIOAddon.quit('ABORT').then(...)
abort(cb) ==
  /\ IsStream
  /\ shutdownCalls < MaxShutdowns
  /\ shutdownCalls' = shutdownCalls + 1
  /\ abortCalls' = abortCalls + 1
  /\ engineQuit("ABORT", "abort", cb)
  /\ UNCHANGED <<factoryVars, startVars, readVars, writeVars, endVars, lifeVars,
                 completions, finishedEmitted, rejections, idleQuitDone, abortDone,
                 calledBack, ioAfterShutdown, lateBufs>>

\* the engine settles a quit: it confirms shutdown, or the promise rejects
EngineQuit(i, kind) ==
  /\ i \in DOMAIN quitOps /\ quitOps[i].st = "pending"
  /\ quitOps' = [quitOps EXCEPT ![i].st = kind]
  /\ quitResolved' = IF kind = "resolved" THEN quitResolved \cup {quitOps[i].id}
                     ELSE quitResolved
  /\ UNCHANGED <<factoryVars, startVars, readVars, writeVars, endVars, lifeVars,
                 quitIssued, quitCalls, doneVars, obsVars>>

\* quit() / abort() after engine.quit resolved: the optional callback
completeShutdown(op) ==
  /\ completions' = IF op.cb THEN completions + 1 ELSE completions
  /\ calledBack' = IF op.cb THEN Append(calledBack, op.id) ELSE calledBack
  /\ idleQuitDone' = (idleQuitDone \/ (op.src = "quit" /\ op.idle))
  /\ abortDone' = (abortDone \/ op.src = "abort")
  /\ UNCHANGED <<finishedEmitted, rejections>>

\* the finish handler after await stream.quit(): stream.emit('finished')
emitFinished ==
  /\ finishedEmitted' = finishedEmitted + 1
  /\ UNCHANGED <<completions, rejections, idleQuitDone, abortDone, calledBack>>

\* variant of shutdownResume: the finish handler emits 'finished' whether the
\* engine's quit resolved or rejected (try / finally)
shutdownResumeFinally(i) ==
  /\ i \in DOMAIN quitOps /\ quitOps[i].st # "pending"
  /\ quitOps' = RemoveAt(quitOps, i)
  /\ IF quitOps[i].src = "finish"
     THEN /\ finishedEmitted' = finishedEmitted + 1
          /\ rejections' = IF quitOps[i].st = "rejected" THEN rejections + 1 ELSE rejections
          /\ UNCHANGED <<completions, idleQuitDone, abortDone, calledBack>>
     ELSE IF quitOps[i].st = "rejected"
     THEN /\ rejections' = rejections + 1
          /\ UNCHANGED <<completions, finishedEmitted, idleQuitDone, abortDone, calledBack>>
     ELSE completeShutdown(quitOps[i])
  /\ UNCHANGED <<factoryVars, startVars, readVars, writeVars, endVars, lifeVars,
                 quitIssued, quitCalls, quitResolved, shutdownCalls, obsVars>>

\* the continuation of one engine.quit promise; a rejection propagates out of
\* quit() / abort()'s then / the finish handler with nothing else run
shutdownResume(i) ==
  /\ i \in DOMAIN quitOps /\ quitOps[i].st # "pending"
  /\ quitOps' = RemoveAt(quitOps, i)
  /\ IF quitOps[i].st = "rejected"
     THEN /\ rejections' = rejections + 1
          /\ UNCHANGED <<completions, finishedEmitted, idleQuitDone, abortDone, calledBack>>
     ELSE IF quitOps[i].src = "finish" THEN emitFinished
     ELSE completeShutdown(quitOps[i])
  /\ UNCHANGED <<factoryVars, startVars, readVars, writeVars, endVars, lifeVars,
                 quitIssued, quitCalls, quitResolved, shutdownCalls, obsVars>>

MaxQuitOps == MaxShutdowns + 1

\* ------------------------------------------------------------ specifications
NextFactory ==
  \E i \in OptionStates, o \in OptionStates, coe \in BOOLEAN : AudioIO(i, o, coe)

\* AudioIO called with closeOnError left at its default
NextFactoryDefault ==
  \E i \in OptionStates, o \in OptionStates : AudioIO(i, o, TRUE)

NextRead ==
  \/ _read
  \/ \E i \in 1..MaxReads, k \in ReadKinds : EngineRead(i, k)
  \/ \E i \in 1..MaxReads : doRead(i)
  \/ emitData
  \/ emitEnd

NextWrite ==
  \/ write
  \/ \E i \in 1..MaxWrites, k \in WriteKinds : EngineWrite(i, k)
  \/ \E i \in 1..MaxWrites : doWrite(i)
  \/ end

NextEngineQuit ==
  \/ \E i \in 1..MaxQuitOps, k \in QuitKinds : EngineQuit(i, k)
  \/ \E i \in 1..MaxQuitOps : shutdownResume(i)

NextShutdown ==
  \/ \E cb \in BOOLEAN : quit(cb)
  \/ \E cb \in BOOLEAN : abort(cb)

\* the whole program: every operation of the application, the stream
\* framework and the engine
Next == NextFactory \/ start \/ NextRead \/ NextWrite \/ NextShutdown \/ NextEngineQuit

Spec == Init /\ [][Next]_vars

\* the application captures only: the consumer pulls, nothing is written
NextCapture == NextFactoryDefault \/ NextRead \/ NextShutdown \/ NextEngineQuit

SpecCapture == Init /\ [][NextCapture]_vars

\* capture with a consumer in flowing mode: the continuation of a settled read
\* always runs, and Readable always gets to deliver buffered data and 'end'
FairCapture ==
  /\ SpecCapture
  /\ WF_vars(\E i \in 1..MaxReads : doRead(i))
  /\ WF_vars(emitData)
  /\ WF_vars(emitEnd)

\* the application plays back only: the producer writes and ends, nothing is pulled
NextPlayback == NextFactory \/ NextWrite \/ NextShutdown \/ NextEngineQuit

SpecPlayback == Init /\ [][NextPlayback]_vars

\* both directions at once, shut down only through the finish handler
NextBoth == NextFactory \/ start \/ NextRead \/ NextWrite \/ NextEngineQuit

SpecBoth == Init /\ [][NextBoth]_vars

\* the duplex stream piped into itself over a passthrough engine: the producer
\* seeds the loop with writes, every write succeeds, nothing is ended or quit
NextLoopback ==
  \/ NextFactoryDefault
  \/ write
  \/ \E i \in 1..MaxWrites : EngineWrite(i, "ok")
  \/ \E i \in 1..MaxWrites : doWrite(i)
  \/ _read
  \/ \E i \in 1..MaxReads : EnginePassthroughRead(i)
  \/ \E i \in 1..MaxReads : doRead(i)
  \/ pipeData

SpecLoopback == Init /\ [][NextLoopback]_vars

\* loopback where the engine settles every call it can, every continuation
\* runs, and the stream keeps pulling and delivering
FairLoopback ==
  /\ SpecLoopback
  /\ WF_vars(\E i \in 1..MaxWrites : EngineWrite(i, "ok"))
  /\ WF_vars(\E i \in 1..MaxWrites : doWrite(i))
  /\ WF_vars(_read)
  /\ WF_vars(\E i \in 1..MaxReads : EnginePassthroughRead(i))
  /\ WF_vars(\E i \in 1..MaxReads : doRead(i))
  /\ WF_vars(pipeData)

\* both directions over an engine that resolves every call without error:
\* reads give buffers or `finished`, writes and quits succeed
NextResolving ==
  \/ NextFactoryDefault
  \/ _read
  \/ \E i \in 1..MaxReads, k \in {"buf", "finished"} : EngineRead(i, k)
  \/ \E i \in 1..MaxReads : doRead(i)
  \/ emitData
  \/ emitEnd
  \/ write
  \/ \E i \in 1..MaxWrites : EngineWrite(i, "ok")
  \/ \E i \in 1..MaxWrites : doWrite(i)
  \/ end
  \/ \E i \in 1..MaxQuitOps : EngineQuit(i, "resolved")
  \/ \E i \in 1..MaxQuitOps : shutdownResume(i)

SpecResolving == Init /\ [][NextResolving]_vars

\* the engine settles every call, every continuation runs, and the consumer
\* keeps pulling: Readable calls _read and delivers 'data' and 'end'
FairResolving ==
  /\ SpecResolving
  /\ WF_vars(_read)
  /\ WF_vars(\E i \in 1..MaxReads, k \in {"buf", "finished"} : EngineRead(i, k))
  /\ WF_vars(\E i \in 1..MaxReads : doRead(i))
  /\ WF_vars(emitData)
  /\ WF_vars(emitEnd)
  /\ WF_vars(\E i \in 1..MaxWrites : EngineWrite(i, "ok"))
  /\ WF_vars(\E i \in 1..MaxWrites : doWrite(i))
  /\ WF_vars(\E i \in 1..MaxQuitOps : EngineQuit(i, "resolved"))
  /\ WF_vars(\E i \in 1..MaxQuitOps : shutdownResume(i))

\* a stream that is started, read, written and shut down by quit() or abort()
\* while it runs: the engine has buffers for every read and resolves every
\* call without error; the consumer leaves the data in the read buffer and
\* the producer does not end the stream
NextStarted ==
  \/ NextFactoryDefault
  \/ start
  \/ _read
  \/ \E i \in 1..MaxReads : EngineRead(i, "buf")
  \/ \E i \in 1..MaxReads : doRead(i)
  \/ write
  \/ \E i \in 1..MaxWrites : EngineWrite(i, "ok")
  \/ \E i \in 1..MaxWrites : doWrite(i)
  \/ NextShutdown
  \/ \E i \in 1..MaxQuitOps : EngineQuit(i, "resolved")
  \/ \E i \in 1..MaxQuitOps : shutdownResume(i)

SpecStarted == Init /\ [][NextStarted]_vars

\* playback where the producer's write callback or 'drain' listener may throw
NextThrowing == NextFactoryDefault \/ NextWrite \/ \E i \in 1..MaxWrites : doWriteThrows(i)

SpecThrowing == Init /\ [][NextThrowing]_vars

\* ------------------------------------------------------------------- claims
IsPrefix(s, t) == Len(s) <= Len(t) /\ \A i \in 1..Len(s) : s[i] = t[i]

\* the buffers the engine has returned, in order
BufIds(log) == [i \in 1..Len(BufsOf(log)) |-> BufsOf(log)[i][2]]

\* the engine's read results so far are buffers, possibly followed by `finished`
CleanReads == \A i \in DOMAIN readLog : readLog[i][1] \in {"buf", "finished"}

FinishedReturned == \E i \in DOMAIN readLog : readLog[i][1] = "finished"

\* the safety half of C1
C1_Safety ==
  (HasReadable /\ CleanReads) =>
    /\ IsPrefix(delivered, BufIds(readLog))
    /\ endEmitted <= 1
    /\ (endEmitted = 1 => (FinishedReturned /\ delivered = BufIds(readLog)))
    /\ (FinishedReturned =>
          /\ readLog[Len(readLog)][1] = "finished"
          /\ readsIssued = Len(readLog))

\* C1: when the engine's read results are buffers b1..bn followed by
\* `finished`, the consumer receives a prefix of b1..bn in the engine's order
\* with no buffer repeated, end-of-stream is signalled at most once and only
\* after all of b1..bn were delivered, no engine.read is issued after the
\* read that returned `finished`, and once `finished` was returned the
\* Readable stream does deliver all of b1..bn and then signals end-of-stream.
C1_ReadableDeliversInOrderThenEnds ==
  /\ []C1_Safety
  /\ (variant = "Readable" /\ CleanReads /\ FinishedReturned)
       ~> (endEmitted = 1 /\ delivered = BufIds(readLog))

\* two buffers, then `finished`: both delivered, then end
C1_TwoBuffersThenEnd ==
  /\ variant = "Readable" /\ CleanReads
  /\ delivered = <<1, 2>> /\ endEmitted = 1 /\ readsIssued = 3

ChunksOf(log) == [i \in 1..Len(log) |-> log[i][1]]

\* C2: engine.write is called with the submitted chunks in submission order,
\* a chunk's engine.write is called only after the previous chunk's write has
\* settled and been acknowledged, and a chunk's completion callback is raised
\* only after that chunk's engine.write has settled.
C2_WritesInOrderOneAtATime ==
  HasWritable =>
    /\ IsPrefix(writeLog, submitted)
    /\ IsPrefix(writeSettled, writeLog)
    /\ Len(writeLog) <= Len(writeSettled) + 1
    /\ IsPrefix(ChunksOf(cbLog), writeSettled)
    /\ Len(writeLog) <= Len(cbLog) + 1

\* chunk 1 acknowledged, chunk 2 at the engine, chunk 3 held back in the buffer
C2_ThirdChunkWaits ==
  /\ variant = "Writable"
  /\ ChunksOf(cbLog) = <<1>> /\ writeLog = <<1, 2>> /\ wbuf = <<3>>

\* C3: once engine.quit has been called through quit() or abort(), the stream
\* issues no further engine.read or engine.write.
C3_NoIOAfterShutdown == ioAfterShutdown = {}

\* C4: an abort() whose engine.quit has resolved can complete whether or not a
\* read is still outstanding, and no buffer of a read that was outstanding
\* when abort() was called is delivered to the consumer.
C4_AbortDiscardsLateRead ==
  /\ \A i \in DOMAIN quitOps :
       (quitOps[i].src = "abort" /\ quitOps[i].st = "resolved") => ENABLED shutdownResume(i)
  /\ \A i \in DOMAIN delivered : delivered[i] \notin lateBufs

PendingQuits == {i \in DOMAIN quitOps : quitOps[i].st = "pending"}

\* C5: at most one engine.quit call is unresolved at any time.
C5_AtMostOneQuitInFlight == Cardinality(PendingQuits) <= 1

\* C6: once a quit() that was called with no read or write outstanding has
\* resolved, the stream is Closed and 'closed' has been emitted.
C6_IdleQuitClosesStream == idleQuitDone => (destroyed /\ closedEmitted = 1)

\* C7: when the factory throws for want of any configuration, no engine has
\* been constructed.
C7_NoEngineBeforeConfigError == variant = "threw" => engineCreated = 0

\* C8: the factory returns Duplex iff both inOptions and outOptions are
\* present and not undefined, Readable iff only inOptions is, Writable iff
\* only outOptions is, and it has constructed the engine exactly once.
C8_FactorySelectsVariant ==
  variant # "none" =>
    /\ (variant = "Duplex") <=> (inOpt = "cfg" /\ outOpt = "cfg")
    /\ (variant = "Readable") <=> (inOpt = "cfg" /\ outOpt # "cfg")
    /\ (variant = "Writable") <=> (inOpt # "cfg" /\ outOpt = "cfg")
    /\ engineCreated = 1

\* a Readable stream although the outOptions key is present (and undefined)
C8_UndefinedOutOptions ==
  variant = "Readable" /\ outOpt = "undef" /\ readsIssued > 0

\* the outcome the completion callback must carry for an engine outcome
Reported(chunk) == {cbLog[i][2] : i \in {j \in DOMAIN cbLog : cbLog[j][1] = chunk}}

\* C9: with closeOnError = false, a write error is reported through the
\* failing chunk's completion callback, and the stream stays open: no later
\* chunk is refused.
C9_WriteErrorNotFatal ==
  (HasWritable /\ ~closeOnError /\ Cardinality(failedChunks) = 1) =>
    /\ \A c \in failedChunks : Reported(c) \subseteq {"err", "reject"}
    /\ ~destroyed
    /\ refused = 0

ReadFailures == {i \in DOMAIN readLog : readLog[i][1] \in {"err", "reject"}}

\* doRead has handled a failed read
ReadFailureHandled ==
  /\ ReadFailures # {}
  /\ \A j \in DOMAIN readOps : readOps[j].st \notin {"err", "reject"}

C11_LoopbackPreservesChunks ==
  /\ [](variant = "Duplex" =>
          /\ IsPrefix(writeLog, submitted)
          /\ IsPrefix(BufIds(readLog), writeLog)
          /\ IsPrefix(delivered, BufIds(readLog)))
  /\ \A k \in 1..MaxWrites :
        (variant = "Duplex" /\ Len(submitted) >= k)
          ~> (Len(delivered) >= k /\ delivered[k] = submitted[k])

\* three chunks went round the loop: all written, all produced again in order
C11_ThreeChunksLooped ==
  /\ variant = "Duplex"
  /\ Len(submitted) = 3 /\ delivered = submitted
  /\ \E k \in 1..2 : submitted[k] # submitted[k + 1]

\* the engine.quit calls made by the 'finish' handler
FinishQuits == {id \in DOMAIN quitCalls : quitCalls[id].src = "finish"}

\* the engine.quit calls whose promise is still pending or not yet continued
OpenQuits == {quitOps[i].id : i \in DOMAIN quitOps}

\* C12: when the write side of a Writable or Duplex stream finishes, the
\* factory's finish handler calls engine.quit once, in WAIT mode; 'finished'
\* is emitted at most once, only after that quit has resolved, and has been
\* emitted once the handler has continued after a resolved quit.
C12_FinishedAfterQuitResolved ==
  /\ finishEmitted <= 1
  /\ Cardinality(FinishQuits) = finishEmitted
  /\ \A id \in FinishQuits : quitCalls[id].mode = "WAIT"
  /\ finishedEmitted <= 1
  /\ finishedEmitted = 1 => FinishQuits \cap quitResolved # {}
  /\ \A id \in FinishQuits :
        (id \in quitResolved /\ id \notin OpenQuits) => finishedEmitted = 1

\* a duplex stream whose chunks were all acknowledged finished, the handler's
\* quit resolved after an explicit quit() had been rejected, 'finished' came
C12_FinishedEmittedOnce ==
  /\ variant = "Duplex" /\ Len(cbLog) = 2 /\ finishEmitted = 1
  /\ finishedEmitted = 1 /\ rejections = 1

\* the engine calls whose promise the engine has not settled yet
PendingReads == {i \in DOMAIN readOps : readOps[i].st = "pending"}

PendingWrites == {i \in DOMAIN writeOps : writeOps[i].st = "pending"}

\* C13: in every variant at most one engine.read and at most one engine.write
\* is outstanding (not settled, or settled and not yet continued); and in a
\* Duplex stream the two are independent: an idle read side can issue its
\* read while a write is outstanding, and an idle write side can issue its
\* write while a read is outstanding.
C13_OneReadOneWriteOutstanding ==
  /\ Len(readOps) <= 1 /\ Len(writeOps) <= 1
  /\ Cardinality(PendingReads) <= 1 /\ Cardinality(PendingWrites) <= 1
  /\ (variant = "Duplex" /\ ~destroyed /\ writeOps # <<>>
        /\ ~reading /\ ~rEnded /\ Len(rbuf) < ReadableHWM /\ readsIssued < MaxReads)
       => ENABLED (_read /\ Len(readOps') = Len(readOps) + 1)
  /\ (variant = "Duplex" /\ ~destroyed /\ readOps # <<>>
        /\ ~writing /\ ~ending /\ attempts < MaxWrites)
       => ENABLED (write /\ Len(writeOps') = Len(writeOps) + 1)

\* a duplex stream with an engine.read and an engine.write pending together
C13_ReadAndWriteOutstanding ==
  /\ variant = "Duplex"
  /\ Cardinality(PendingReads) = 1 /\ Cardinality(PendingWrites) = 1
  /\ wbuf # <<>>

\* the engine.quit calls whose promise rejected and whose continuation has run
HandledRejections == {id \in DOMAIN quitCalls : id \notin OpenQuits /\ id \notin quitResolved}

CalledBackIds == {calledBack[k] : k \in DOMAIN calledBack}

\* C14: a rejected engine.quit does not leave the shutdown hanging: once the
\* rejection has been handled, the completion callback given to quit() or
\* abort() has been invoked, and the finish handler has emitted 'finished'.
C14_RejectedQuitStillCompletes ==
  \A id \in HandledRejections :
    /\ quitCalls[id].cb => id \in CalledBackIds
    /\ quitCalls[id].src = "finish" => finishedEmitted = 1

\* the whole duplex stream has ended: engine.quit was called, both sides
\* ended, and the stream is Closed
DuplexClosed ==
  /\ quitIssued > 0
  /\ endEmitted = 1 /\ finishEmitted = 1
  /\ destroyed /\ closedEmitted = 1

C16_ShutdownModesAndCompletion ==
  /\ \A id \in DOMAIN quitCalls :
        /\ quitCalls[id].src = "quit" => quitCalls[id].mode = "WAIT"
        /\ quitCalls[id].src = "abort" => quitCalls[id].mode = "ABORT"
  /\ \A k \in DOMAIN calledBack :
        /\ calledBack[k] \in quitResolved
        /\ calledBack[k] \notin OpenQuits
        /\ quitCalls[calledBack[k]].cb
        /\ quitCalls[calledBack[k]].src \in {"quit", "abort"}
  /\ \A k1, k2 \in DOMAIN calledBack : calledBack[k1] = calledBack[k2] => k1 = k2
  /\ completions = Len(calledBack)
  /\ \A i \in DOMAIN quitOps :
        quitOps[i].st = "pending" => quitOps[i].id \notin CalledBackIds \cup quitResolved

\* abort(callback) on a stream with a write outstanding: the engine resolved
\* the ABORT quit and the callback ran
C16_AbortCalledBack ==
  /\ \E id \in CalledBackIds : quitCalls[id].src = "abort" /\ quitCalls[id].mode = "ABORT"
  /\ writeOps # <<>>

EngineErrors == ReadErrors \cup {WriteError(k) : k \in {"err", "reject"}}

\* C17: 'closed' is emitted at most once in any lifecycle; a stream terminated
\* by an engine error is Closed, has emitted 'closed' and has reported exactly
\* one error to the error observer; and once doRead has handled a failed read,
\* or a write error was reported to the write completion, the stream is
\* Closed with 'closed' emitted and an error reported.
C17_EngineErrorClosesOnce ==
  /\ closedEmitted <= 1
  /\ destroyed <=> closedEmitted = 1
  /\ errored \in EngineErrors => (destroyed /\ closedEmitted = 1 /\ errorsLogged = 1)
  /\ (ReadFailureHandled \/ failedChunks # {}) =>
       (destroyed /\ closedEmitted = 1 /\ errorsLogged = 1 /\ errored \in EngineErrors)

\* a duplex stream terminated by a write error, whose outstanding read then
\* failed as well: one 'closed', one error reported
C17_WriteErrorThenReadError ==
  /\ variant = "Duplex" /\ errored = "writeErr"
  /\ ReadFailureHandled
  /\ closedEmitted = 1 /\ errorsLogged = 1

\* C18: engine.start has been called exactly once for each start() call of
\* the application; no other operation (construction, read, write, quit,
\* abort) calls it.
C18_StartCallsEngineStartOnce ==
  /\ startCalls = appStarts
  /\ ~IsStream => startCalls = 0

\* a started duplex stream that has read, written and been quit: one
\* engine.start
C18_StartedOnceAmongOtherCalls ==
  /\ variant = "Duplex" /\ appStarts = 1 /\ startCalls = 1
  /\ readsIssued > 0 /\ writeLog # <<>> /\ quitIssued > 0

\* the chunks whose engine.write has settled and whose doWrite has continued
WritesContinued ==
  {writeLog[k] : k \in DOMAIN writeLog} \ {writeOps[i].chunk : i \in DOMAIN writeOps}

\* C19: doWrite invokes the completion callback exactly once for every chunk
\* handed to _write, with the engine's outcome or the rejection; never a
\* second time for the same chunk, also when the callback invocation throws.
C19_CallbackExactlyOnce ==
  /\ \A k1, k2 \in DOMAIN cbLog : cbLog[k1][1] = cbLog[k2][1] => k1 = k2
  /\ \A k \in DOMAIN cbLog : cbLog[k][2] \in WriteKinds
  /\ \A c \in WritesContinued : \E k \in DOMAIN cbLog : cbLog[k][1] = c

\* C20: every engine.quit call comes from an explicit quit() or abort() call
\* or from the write side's 'finish' handler; a Readable stream has no
\* 'finish': its engine.quit calls are those of quit()/abort() alone, so one
\* that ends on `finished` or a read error without them is Closed with no
\* engine.quit call, and it never emits 'finished'.
C20_QuitOnlyExplicitOrOnFinish ==
  /\ quitIssued = shutdownCalls + finishEmitted
  /\ Len(quitCalls) = quitIssued
  /\ variant = "Readable" =>
       /\ finishEmitted = 0 /\ finishedEmitted = 0
       /\ quitIssued = shutdownCalls
       /\ \A id \in DOMAIN quitCalls : quitCalls[id].src \in {"quit", "abort"}

\* a Readable stream that delivered data, ended on `finished` and is Closed,
\* with engine.quit never called
C20_ReadableClosedWithoutQuit ==
  /\ variant = "Readable" /\ FinishedReturned /\ delivered # <<>>
  /\ endEmitted = 1 /\ destroyed /\ closedEmitted = 1
  /\ quitIssued = 0 /\ shutdownCalls = 0
====
